---- MODULE Spec2Model ----
(***************************************************************************)
(* A model of the helloworld greeting library (src/src/lib.rs) and of its  *)
(* command-line front end (src/src/main.rs).                               *)
(*                                                                         *)
(* A Rust char is modelled as its Unicode code point (an integer) and a    *)
(* &str / String as a sequence of code points, so that the byte length of  *)
(* the UTF-8 encoding (str::len), the character count, trimming and case   *)
(* folding are all computed and can differ from one another.               *)
(*                                                                         *)
(* Spec    : a client calling the public functions of the library.         *)
(* CliSpec : one run of the binary on an argument vector.                  *)
(***************************************************************************)
EXTENDS Integers, Sequences, FiniteSets

VARIABLES
    op,           \* the library function called last ("init" before any call)
    name,         \* its `name` argument
    arg,          \* its second argument (`title` or `language_code`), else <<>>
    result,       \* the value it returned
    args,         \* CLI: std::env::args(); Rust's args[i] is args[i + 1] here
    stdout,       \* CLI: the lines written to standard output so far
    exit_status,  \* CLI: the exit status of the process, -1 while it runs
    pc            \* CLI: "main" before main() runs, "exited" after it returned

vars == <<op, name, arg, result, args, stdout, exit_status, pc>>
lib_vars == <<op, name, arg, result>>
cli_vars == <<args, stdout, exit_status, pc>>

----------------------------------------------------------------------------
(* Bounds of the model.                                                    *)

\* Names are built with bodies of 0..MaxBody characters.
MaxBody == 102
\* ... and with 0..MaxPad whitespace characters on each side.
MaxPad == 1
\* The CLI is run with 0..MaxArgs positional arguments.
MaxArgs == 4

(* Program constants.                                                      *)

\* lib.rs:244  `trimmed.len() > 100`
MaxNameLen == 100
\* main.rs:28  `args[1].len() <= 3`
MaxCodeLen == 3

----------------------------------------------------------------------------
(* Strings of the Rust standard library.                                   *)

\* char::len_utf8: the number of bytes of the UTF-8 encoding of a code point.
utf8_len(c) ==
    IF c < 128 THEN 1
    ELSE IF c < 2048 THEN 2
    ELSE IF c < 65536 THEN 3
    ELSE 4

RECURSIVE byte_len_upto(_, _)
byte_len_upto(s, i) ==
    IF i = 0 THEN 0 ELSE utf8_len(s[i]) + byte_len_upto(s, i - 1)

\* str::len: the length of a string in BYTES, not in characters.
str_len(s) == byte_len_upto(s, Len(s))

\* char::is_whitespace: the code points with the Unicode White_Space property.
is_whitespace(c) ==
    \/ c \in 9..13
    \/ c \in {32, 133, 160, 5760, 8232, 8233, 8239, 8287, 12288}
    \/ c \in 8192..8202

RECURSIVE trim_start(_)
trim_start(s) ==
    IF s = <<>> \/ ~is_whitespace(Head(s)) THEN s ELSE trim_start(Tail(s))

RECURSIVE trim_end(_)
trim_end(s) ==
    IF s = <<>> \/ ~is_whitespace(s[Len(s)]) THEN s
    ELSE trim_end(SubSeq(s, 1, Len(s) - 1))

\* str::trim: the string without its leading and trailing whitespace.
trim(s) == trim_end(trim_start(s))

\* str::contains(' ')
contains_space(s) == \E i \in 1..Len(s) : s[i] = 32

\* char::to_lowercase on Basic Latin and Latin-1 (the code points the inputs
\* of the model are drawn from; the CJK code points used have no case).
char_to_lowercase(c) ==
    IF c \in 65..90 THEN c + 32
    ELSE IF c \in 192..222 /\ c # 215 THEN c + 32
    ELSE c

\* str::to_lowercase
to_lowercase(s) == [i \in 1..Len(s) |-> char_to_lowercase(s[i])]

----------------------------------------------------------------------------
(* src/src/lib.rs                                                          *)

\* enum GreetingError
EmptyName == [kind |-> "EmptyName"]
InvalidLanguage(code) == [kind |-> "InvalidLanguage", code |-> code]
NameTooLong(n) == [kind |-> "NameTooLong", len |-> n]

\* Result<T, GreetingError>; Ok(()) is Ok(<<>>)
Ok(v) == [tag |-> "Ok", val |-> v]
Err(e) == [tag |-> "Err", err |-> e]

\* enum Language
Language == {"English", "Chinese", "Spanish", "French", "German"}

\* A faulty from_code: the code is matched without code.to_lowercase().
from_code_case_sensitive(code) ==
    IF code \in {<<122, 104>>, <<99, 104, 105, 110, 101, 115, 101>>}
      THEN "Chinese"
    ELSE IF code \in {<<101, 115>>, <<115, 112, 97, 110, 105, 115, 104>>}
      THEN "Spanish"
    ELSE IF code \in {<<102, 114>>, <<102, 114, 101, 110, 99, 104>>}
      THEN "French"
    ELSE IF code \in {<<100, 101>>, <<103, 101, 114, 109, 97, 110>>}
      THEN "German"
    ELSE "English"

\* Language::from_code
from_code(code) ==
    LET lower == to_lowercase(code) IN
    \* "zh" | "chinese"
    IF lower \in {<<122, 104>>, <<99, 104, 105, 110, 101, 115, 101>>}
      THEN "Chinese"
    \* "es" | "spanish"
    ELSE IF lower \in {<<101, 115>>, <<115, 112, 97, 110, 105, 115, 104>>}
      THEN "Spanish"
    \* "fr" | "french"
    ELSE IF lower \in {<<102, 114>>, <<102, 114, 101, 110, 99, 104>>}
      THEN "French"
    \* "de" | "german"
    ELSE IF lower \in {<<100, 101>>, <<103, 101, 114, 109, 97, 110>>}
      THEN "German"
    ELSE "English"

\* Language::greeting_word
greeting_word(language) ==
    CASE language = "English" -> <<72, 101, 108, 108, 111>>              \* "Hello"
      [] language = "Chinese" -> <<20320, 22909>>                        \* U+4F60 U+597D
      [] language = "Spanish" -> <<72, 111, 108, 97>>                    \* "Hola"
      [] language = "French"  -> <<66, 111, 110, 106, 111, 117, 114>>    \* "Bonjour"
      [] language = "German"  -> <<72, 97, 108, 108, 111>>               \* "Hallo"

\* A faulty greet: the name is trimmed before it is interpolated.
greet_trimming(n) == <<72, 101, 108, 108, 111, 44, 32>> \o trim(n) \o <<33>>

\* greet: format!("Hello, {}!", name)
greet(n) == <<72, 101, 108, 108, 111, 44, 32>> \o n \o <<33>>

\* A faulty greet_formal: the format arguments are swapped.
greet_formal_name_first(n, title) ==
    <<71, 111, 111, 100, 32, 100, 97, 121, 44, 32>> \o n \o <<32>> \o title \o <<33>>

\* greet_formal: format!("Good day, {} {}!", title, name)
greet_formal(n, title) ==
    <<71, 111, 111, 100, 32, 100, 97, 121, 44, 32>> \o title \o <<32>> \o n \o <<33>>

\* greet_multilingual: format!("{}, {}!", greeting, name)
greet_multilingual(n, language_code) ==
    LET language == from_code(language_code)
        greeting == greeting_word(language)
    IN  greeting \o <<44, 32>> \o n \o <<33>>

\* A faulty get_supported_languages: the variants in alphabetical order.
get_supported_languages_sorted ==
    <<"Chinese", "English", "French", "German", "Spanish">>

\* get_supported_languages
get_supported_languages ==
    <<"English", "Chinese", "Spanish", "French", "German">>

\* validate_name
validate_name(n) ==
    LET trimmed == trim(n) IN
    IF trimmed = <<>> THEN Err(EmptyName)
    ELSE IF str_len(trimmed) > MaxNameLen THEN Err(NameTooLong(str_len(trimmed)))
    ELSE Ok(<<>>)

\* A faulty safe_greet: the name is validated trimmed but greeted as given.
safe_greet_untrimmed(n) ==
    LET v == validate_name(n) IN
    IF v.tag = "Err" THEN v
    ELSE Ok(<<72, 101, 108, 108, 111, 44, 32>> \o n \o <<33>>)

\* safe_greet: validate_name(name)?; Ok(format!("Hello, {}!", name.trim()))
safe_greet(n) ==
    LET v == validate_name(n) IN
    IF v.tag = "Err" THEN v
    ELSE Ok(<<72, 101, 108, 108, 111, 44, 32>> \o trim(n) \o <<33>>)

\* A faulty safe_greet_multilingual: the name is greeted as given.
safe_greet_multilingual_untrimmed(n, language_code) ==
    LET v == validate_name(n) IN
    IF v.tag = "Err" THEN v
    ELSE Ok(greeting_word(from_code(language_code)) \o <<44, 32>> \o n \o <<33>>)

\* A faulty safe_greet_multilingual: strict mode, an unrecognized code is an
\* InvalidLanguage error instead of English.
safe_greet_multilingual_strict(n, language_code) ==
    LET v == validate_name(n)
        lower == to_lowercase(language_code)
    IN
    IF v.tag = "Err" THEN v
    ELSE IF from_code(language_code) = "English"
            /\ lower \notin {<<101, 110>>, <<101, 110, 103, 108, 105, 115, 104>>}
      THEN Err(InvalidLanguage(language_code))
    ELSE Ok(greeting_word(from_code(language_code)) \o <<44, 32>> \o trim(n) \o <<33>>)

\* safe_greet_multilingual
safe_greet_multilingual(n, language_code) ==
    LET v == validate_name(n) IN
    IF v.tag = "Err" THEN v
    ELSE LET language == from_code(language_code)
             greeting == greeting_word(language)
         IN  Ok(greeting \o <<44, 32>> \o trim(n) \o <<33>>)

----------------------------------------------------------------------------
(* The inputs the library is called with.                                  *)

Repeat(c, k) == [i \in 1..k |-> c]

\* U+0020 SPACE (1 byte) and U+3000 IDEOGRAPHIC SPACE (3 bytes)
WhitespaceChars == {32, 12288}
\* "A" (1 byte), U+00E9 e-acute (2 bytes), U+4E16 (3 bytes)
BodyChars == {65, 233, 19990}

Pads == {Repeat(w, k) : w \in WhitespaceChars, k \in 0..MaxPad}

Padded(bodies) == {l \o b \o r : l \in Pads, b \in bodies, r \in Pads}

ExampleNames ==
    { <<87, 111, 114, 108, 100>>,                       \* "World"
      <<65, 108, 105, 99, 101>>,                        \* "Alice"
      <<83, 109, 105, 116, 104>>,                       \* "Smith"
      <<32, 32, 66, 111, 98, 32, 32>>,                  \* "  Bob  "
      <<32, 32, 32>>,                                   \* "   "
      <<9, 66, 111, 98, 10>>,                           \* "\tBob\n"
      <<65, 32, 32, 66>>,                               \* "A  B"
      <<19990, 30028>>,                                 \* U+4E16 U+754C
      <<68, 114, 46, 32, 83, 109, 105, 116, 104>> }     \* "Dr. Smith"

\* The names the one-argument functions are called with: every name of
\* 0..MaxBody equal characters, short and long names padded with whitespace,
\* and the names of the documentation and the tests.
Names ==
    {Repeat(c, k) : c \in BodyChars, k \in 0..MaxBody}
      \cup Padded({Repeat(c, k) : c \in BodyChars,
                                  k \in {0, 2, 40, MaxNameLen, MaxNameLen + 1}})
      \cup ExampleNames

\* The names the two-argument functions are called with.
SampleNames ==
    Padded({Repeat(c, k) : c \in BodyChars, k \in {0, 40}})
      \cup {Repeat(c, k) : c \in BodyChars, k \in {MaxNameLen, MaxNameLen + 1}}
      \cup ExampleNames

Titles ==
    { <<>>,
      <<68, 114, 46>>,                                  \* "Dr."
      <<77, 115, 46>>,                                  \* "Ms."
      <<32, 80, 114, 111, 102, 46, 32>> }               \* " Prof. "

ShortCodes ==
    { <<122, 104>>, <<101, 115>>, <<102, 114>>, <<100, 101>>, <<101, 110>> }

FullNames ==
    { <<99, 104, 105, 110, 101, 115, 101>>,             \* "chinese"
      <<115, 112, 97, 110, 105, 115, 104>>,             \* "spanish"
      <<102, 114, 101, 110, 99, 104>>,                  \* "french"
      <<103, 101, 114, 109, 97, 110>>,                  \* "german"
      <<101, 110, 103, 108, 105, 115, 104>> }           \* "english"

\* ASCII upper case of a lower-case word, and the word capitalised.
Upper(w) == [i \in 1..Len(w) |-> w[i] - 32]
Capitalised(w) == [i \in 1..Len(w) |-> IF i = 1 THEN w[i] - 32 ELSE w[i]]
\* Every way of writing a lower-case ASCII word in upper and lower case.
CaseVariants(w) ==
    {v \in [1..Len(w) -> 65..122] :
        \A i \in 1..Len(w) : v[i] \in {w[i], w[i] - 32}}

UnknownCodes ==
    { <<>>,
      <<117, 110, 107, 110, 111, 119, 110, 95, 108, 97, 110, 103>>,  \* "unknown_lang"
      <<106, 97>>,                                      \* "ja"
      <<32, 122, 104>>,                                 \* " zh"
      <<122, 104, 32>>,                                 \* "zh "
      <<122>>,                                          \* "z"
      <<122, 104, 45, 67, 78>>,                         \* "zh-CN"
      <<201, 83>>,                                      \* U+00C9 "S"
      <<68, 114, 46>>,                                  \* "Dr."
      <<20013, 25991>> }                                \* U+4E2D U+6587

Codes ==
    UNION {CaseVariants(w) : w \in ShortCodes}
      \cup FullNames
      \cup {Upper(w) : w \in FullNames}
      \cup {Capitalised(w) : w \in FullNames}
      \cup UnknownCodes

----------------------------------------------------------------------------
(* The library: a client holds a name and a second argument and calls    *)
(* the public functions on them, in any order and any number of times.    *)
(* The functions are pure: a call reads its arguments and nothing else.   *)

ProgramName == <<104, 101, 108, 108, 111, 119, 111, 114, 108, 100>> \* "helloworld"

\* The (name, second argument) pairs of the client.
Inputs == (Names \X {<<>>}) \cup (SampleNames \X (Titles \cup Codes))

LibInit ==
    /\ \E i \in Inputs : name = i[1] /\ arg = i[2]
    /\ op = "init"
    /\ result = <<>>
    /\ args = <<ProgramName>>
    /\ stdout = <<>>
    /\ exit_status = -1
    /\ pc = "main"

CallGreet ==
    /\ op' = "greet"
    /\ result' = greet(name)
    /\ UNCHANGED <<name, arg, cli_vars>>

CallGreetFormal ==
    /\ arg \in Titles
    /\ op' = "greet_formal"
    /\ result' = greet_formal(name, arg)
    /\ UNCHANGED <<name, arg, cli_vars>>

CallGreetMultilingual ==
    /\ arg \in Codes
    /\ op' = "greet_multilingual"
    /\ result' = greet_multilingual(name, arg)
    /\ UNCHANGED <<name, arg, cli_vars>>

CallGetSupportedLanguages ==
    /\ op' = "get_supported_languages"
    /\ result' = get_supported_languages
    /\ UNCHANGED <<name, arg, cli_vars>>

CallValidateName ==
    /\ op' = "validate_name"
    /\ result' = validate_name(name)
    /\ UNCHANGED <<name, arg, cli_vars>>

CallSafeGreet ==
    /\ op' = "safe_greet"
    /\ result' = safe_greet(name)
    /\ UNCHANGED <<name, arg, cli_vars>>

CallSafeGreetMultilingual ==
    /\ arg \in Codes
    /\ op' = "safe_greet_multilingual"
    /\ result' = safe_greet_multilingual(name, arg)
    /\ UNCHANGED <<name, arg, cli_vars>>

----------------------------------------------------------------------------
(* src/src/main.rs: one run of the binary.                                 *)
(* std::env::args() yields the program name and then the positional        *)
(* arguments; the model draws them as valid Unicode strings.  main()       *)
(* calls neither std::process::exit nor panics on such arguments, so it    *)
(* returns normally and the process exits with status 0.                   *)

\* Rust's args[i]
A(i) == args[i + 1]

\* The number of positional arguments (args.len() - 1)
positional == Len(args) - 1

HelpFlag == <<45, 45, 104, 101, 108, 112>>                        \* "--help"
ShortHelpFlag == <<45, 104>>                                      \* "-h"
LanguagesFlag == <<45, 45, 108, 97, 110, 103, 117, 97, 103, 101, 115>> \* "--languages"

\* print_help: the lines it writes, main.rs:48-72
print_help(program_name) ==
  <<
    \* 48: "HelloWorld CLI - A multilingual greeting application"
    <<72, 101, 108, 108, 111, 87, 111, 114, 108, 100, 32, 67, 76, 73, 32, 45,
      32, 65, 32, 109, 117, 108, 116, 105, 108, 105, 110, 103, 117, 97, 108,
      32, 103, 114, 101, 101, 116, 105, 110, 103, 32, 97, 112, 112, 108, 105,
      99, 97, 116, 105, 111, 110>>,
    \* 49: ""
    <<>>,
    \* 50: "USAGE:"
    <<85, 83, 65, 71, 69, 58>>,
    \* 51: "    {}                          # Hello, World!"
    <<32, 32, 32, 32>> \o program_name \o <<32, 32, 32, 32, 32, 32, 32, 32,
      32, 32, 32, 32, 32, 32, 32, 32, 32, 32, 32, 32, 32, 32, 32, 32, 32, 32,
      35, 32, 72, 101, 108, 108, 111, 44, 32, 87, 111, 114, 108, 100, 33>>,
    \* 52: "    {} <name>                   # Hello, <name>!"
    <<32, 32, 32, 32>> \o program_name \o <<32, 60, 110, 97, 109, 101, 62, 32,
      32, 32, 32, 32, 32, 32, 32, 32, 32, 32, 32, 32, 32, 32, 32, 32, 32, 32,
      35, 32, 72, 101, 108, 108, 111, 44, 32, 60, 110, 97, 109, 101, 62, 33>>,
    \* 53: "    {} <title> <name>           # Good day, <title> <name>!"
    <<32, 32, 32, 32>> \o program_name \o <<32, 60, 116, 105, 116, 108, 101,
      62, 32, 60, 110, 97, 109, 101, 62, 32, 32, 32, 32, 32, 32, 32, 32, 32,
      32, 32, 35, 32, 71, 111, 111, 100, 32, 100, 97, 121, 44, 32, 60, 116,
      105, 116, 108, 101, 62, 32, 60, 110, 97, 109, 101, 62, 33>>,
    \* 54: "    {} <lang> <name>            # Greeting in specified language"
    <<32, 32, 32, 32>> \o program_name \o <<32, 60, 108, 97, 110, 103, 62, 32,
      60, 110, 97, 109, 101, 62, 32, 32, 32, 32, 32, 32, 32, 32, 32, 32, 32,
      32, 35, 32, 71, 114, 101, 101, 116, 105, 110, 103, 32, 105, 110, 32,
      115, 112, 101, 99, 105, 102, 105, 101, 100, 32, 108, 97, 110, 103, 117,
      97, 103, 101>>,
    \* 55: "    {} <lang> <title> <name>    # Formal greeting in specified language"
    <<32, 32, 32, 32>> \o program_name \o <<32, 60, 108, 97, 110, 103, 62, 32,
      60, 116, 105, 116, 108, 101, 62, 32, 60, 110, 97, 109, 101, 62, 32, 32,
      32, 32, 35, 32, 70, 111, 114, 109, 97, 108, 32, 103, 114, 101, 101, 116,
      105, 110, 103, 32, 105, 110, 32, 115, 112, 101, 99, 105, 102, 105, 101,
      100, 32, 108, 97, 110, 103, 117, 97, 103, 101>>,
    \* 56: ""
    <<>>,
    \* 57: "OPTIONS:"
    <<79, 80, 84, 73, 79, 78, 83, 58>>,
    \* 58: "    -h, --help        Show this help message"
    <<32, 32, 32, 32, 45, 104, 44, 32, 45, 45, 104, 101, 108, 112, 32, 32, 32,
      32, 32, 32, 32, 32, 83, 104, 111, 119, 32, 116, 104, 105, 115, 32, 104,
      101, 108, 112, 32, 109, 101, 115, 115, 97, 103, 101>>,
    \* 59: "    --languages       Show supported language codes"
    <<32, 32, 32, 32, 45, 45, 108, 97, 110, 103, 117, 97, 103, 101, 115, 32,
      32, 32, 32, 32, 32, 32, 83, 104, 111, 119, 32, 115, 117, 112, 112, 111,
      114, 116, 101, 100, 32, 108, 97, 110, 103, 117, 97, 103, 101, 32, 99,
      111, 100, 101, 115>>,
    \* 60: ""
    <<>>,
    \* 61: "LANGUAGE CODES:"
    <<76, 65, 78, 71, 85, 65, 71, 69, 32, 67, 79, 68, 69, 83, 58>>,
    \* 62: "    en - English (default)"
    <<32, 32, 32, 32, 101, 110, 32, 45, 32, 69, 110, 103, 108, 105, 115, 104,
      32, 40, 100, 101, 102, 97, 117, 108, 116, 41>>,
    \* 63: "    zh - Chinese"
    <<32, 32, 32, 32, 122, 104, 32, 45, 32, 67, 104, 105, 110, 101, 115,
      101>>,
    \* 64: "    es - Spanish"
    <<32, 32, 32, 32, 101, 115, 32, 45, 32, 83, 112, 97, 110, 105, 115, 104>>,
    \* 65: "    fr - French"
    <<32, 32, 32, 32, 102, 114, 32, 45, 32, 70, 114, 101, 110, 99, 104>>,
    \* 66: "    de - German"
    <<32, 32, 32, 32, 100, 101, 32, 45, 32, 71, 101, 114, 109, 97, 110>>,
    \* 67: ""
    <<>>,
    \* 68: "EXAMPLES:"
    <<69, 88, 65, 77, 80, 76, 69, 83, 58>>,
    \* 69: "    {} Alice                    # Hello, Alice!"
    <<32, 32, 32, 32>> \o program_name \o <<32, 65, 108, 105, 99, 101, 32, 32,
      32, 32, 32, 32, 32, 32, 32, 32, 32, 32, 32, 32, 32, 32, 32, 32, 32, 32,
      35, 32, 72, 101, 108, 108, 111, 44, 32, 65, 108, 105, 99, 101, 33>>,
    \* 70: "    {} Dr. Smith               # Good day, Dr. Smith!"
    <<32, 32, 32, 32>> \o program_name \o <<32, 68, 114, 46, 32, 83, 109, 105,
      116, 104, 32, 32, 32, 32, 32, 32, 32, 32, 32, 32, 32, 32, 32, 32, 32,
      35, 32, 71, 111, 111, 100, 32, 100, 97, 121, 44, 32, 68, 114, 46, 32,
      83, 109, 105, 116, 104, 33>>,
    \* 71: "    {} zh 李明                  # 你好, 李明!"
    <<32, 32, 32, 32>> \o program_name \o <<32, 122, 104, 32, 26446, 26126,
      32, 32, 32, 32, 32, 32, 32, 32, 32, 32, 32, 32, 32, 32, 32, 32, 32, 32,
      35, 32, 20320, 22909, 44, 32, 26446, 26126, 33>>,
    \* 72: "    {} es Señor García          # Hola, Señor García!"
    <<32, 32, 32, 32>> \o program_name \o <<32, 101, 115, 32, 83, 101, 241,
      111, 114, 32, 71, 97, 114, 99, 237, 97, 32, 32, 32, 32, 32, 32, 32, 32,
      32, 32, 35, 32, 72, 111, 108, 97, 44, 32, 83, 101, 241, 111, 114, 32,
      71, 97, 114, 99, 237, 97, 33>>
  >>

\* print_supported_languages: the (code, name) pair of a language
language_code_and_name(language) ==
    CASE language = "English" -> << <<101, 110>>, <<69, 110, 103, 108, 105, 115, 104>> >>
      [] language = "Chinese" -> << <<122, 104>>, <<67, 104, 105, 110, 101, 115, 101>> >>
      [] language = "Spanish" -> << <<101, 115>>, <<83, 112, 97, 110, 105, 115, 104>> >>
      [] language = "French"  -> << <<102, 114>>, <<70, 114, 101, 110, 99, 104>> >>
      [] language = "German"  -> << <<100, 101>>, <<71, 101, 114, 109, 97, 110>> >>

\* print_supported_languages: the lines it writes
print_supported_languages ==
    LET languages == get_supported_languages
        \* println!("  {} - {}", code, name)
        line(language) ==
            LET cn == language_code_and_name(language)
            IN  <<32, 32>> \o cn[1] \o <<32, 45, 32>> \o cn[2]
    IN  \* "Supported Languages:"
        << <<83, 117, 112, 112, 111, 114, 116, 101, 100, 32, 76, 97, 110, 103,
             117, 97, 103, 101, 115, 58>> >>
          \o [i \in 1..Len(languages) |-> line(languages[i])]

\* main.rs:28  args[1].len() <= 3 && !args[1].contains(' ')
looks_like_language_code(s) == str_len(s) <= MaxCodeLen /\ ~contains_space(s)

\* The process returns from main(): it has written `lines` and exits with 0.
ReturnFromMain(lines) ==
    /\ stdout' = stdout \o lines
    /\ exit_status' = 0
    /\ pc' = "exited"
    /\ UNCHANGED <<args, lib_vars>>

\* match args.len() { 1 => ... }
MainNoArgs ==
    /\ pc = "main"
    /\ Len(args) = 1
    /\ ReturnFromMain(<< greet(<<87, 111, 114, 108, 100>>) >>)   \* greet("World")

\* A faulty arm 2: the --languages branch is missing, so the flag is greeted
\* like a name.
MainOneArgWithoutLanguages ==
    /\ pc = "main"
    /\ Len(args) = 2
    /\ IF A(1) = HelpFlag \/ A(1) = ShortHelpFlag
         THEN ReturnFromMain(print_help(A(0)))
       ELSE ReturnFromMain(<< greet(A(1)) >>)

\* match args.len() { 2 => ... }
MainOneArg ==
    /\ pc = "main"
    /\ Len(args) = 2
    /\ IF A(1) = HelpFlag \/ A(1) = ShortHelpFlag
         THEN ReturnFromMain(print_help(A(0)))
       ELSE IF A(1) = LanguagesFlag
         THEN ReturnFromMain(print_supported_languages)
       ELSE ReturnFromMain(<< greet(A(1)) >>)

\* match args.len() { 3 => ... }
MainTwoArgs ==
    /\ pc = "main"
    /\ Len(args) = 3
    /\ IF looks_like_language_code(A(1))
         THEN ReturnFromMain(<< greet_multilingual(A(2), A(1)) >>)
       ELSE ReturnFromMain(<< greet_formal(A(2), A(1)) >>)

\* match args.len() { 4 => ... }
MainThreeArgs ==
    /\ pc = "main"
    /\ Len(args) = 4
    /\ ReturnFromMain(<< greet_multilingual(A(2) \o <<32>> \o A(3), A(1)) >>)

\* A faulty `_` arm: the help text, then std::process::exit(1).
MainTooManyArgsFailing ==
    /\ pc = "main"
    /\ Len(args) \notin 1..4
    /\ stdout' = stdout \o print_help(A(0))
    /\ exit_status' = 1
    /\ pc' = "exited"
    /\ UNCHANGED <<args, lib_vars>>

\* match args.len() { _ => ... }
MainTooManyArgs ==
    /\ pc = "main"
    /\ Len(args) \notin 1..4
    /\ ReturnFromMain(print_help(A(0)))

\* The positional arguments the binary is run with.
ArgStrings ==
    { <<68, 114, 46>>,                                  \* "Dr."
      <<80, 114, 111, 102, 46>>,                        \* "Prof."
      <<83, 109, 105, 116, 104>>,                       \* "Smith"
      <<122, 104>>,                                     \* "zh"
      <<97, 32, 98>>,                                   \* "a b"
      <<26446, 26126>>,                                 \* U+674E U+660E
      HelpFlag, ShortHelpFlag, LanguagesFlag }

ArgVectors ==
    UNION {[1..k -> ArgStrings] : k \in 0..MaxArgs}

CliInit ==
    /\ \E v \in ArgVectors : args = <<ProgramName>> \o v
    /\ stdout = <<>>
    /\ exit_status = -1
    /\ pc = "main"
    /\ op = "init"
    /\ name = <<>>
    /\ arg = <<>>
    /\ result = <<>>

CliNext ==
    \/ MainNoArgs
    \/ MainOneArg
    \/ MainTwoArgs
    \/ MainThreeArgs
    \/ MainTooManyArgs

CliSpec == CliInit /\ [][CliNext]_vars

----------------------------------------------------------------------------
Init == LibInit

Next ==
    \/ CallGreet
    \/ CallGreetFormal
    \/ CallGreetMultilingual
    \/ CallGetSupportedLanguages
    \/ CallValidateName
    \/ CallSafeGreet
    \/ CallSafeGreetMultilingual

Spec == Init /\ [][Next]_vars

----------------------------------------------------------------------------
(* Properties of the library, checked under Spec.                          *)

\* n = l \o t \o r with l and r whitespace only and t neither starting nor
\* ending with whitespace: t is n without its surrounding whitespace.
IsTrimOf(t, n) ==
    /\ Len(t) <= Len(n)
    /\ t # <<>> => ~is_whitespace(t[1]) /\ ~is_whitespace(t[Len(t)])
    /\ \E i \in 0..(Len(n) - Len(t)) :
          /\ \A k \in 1..i : is_whitespace(n[k])
          /\ \A k \in (i + Len(t) + 1)..Len(n) : is_whitespace(n[k])
          /\ \A k \in 1..Len(t) : n[i + k] = t[k]

\* The number of characters of a string (one code point each).
chars_count(s) == Len(s)

\* C1: validate_name's result is determined by the number c of CHARACTERS of
\* the trimmed name: EmptyName when c = 0, NameTooLong(c) when c > 100, and
\* success when 1 <= c <= 100.
C1_ValidateNameCountsCharacters ==
    op = "validate_name" =>
        LET c == chars_count(trim(name)) IN
        /\ IsTrimOf(trim(name), name)
        /\ c = 0 => result = Err(EmptyName)
        /\ c > MaxNameLen => result = Err(NameTooLong(c))
        /\ c \in 1..MaxNameLen => result = Ok(<<>>)

\* C2: safe_greet(n) fails with exactly the error of validate_name(n) when
\* that fails, and otherwise succeeds with greet(trim(n)), which is
\* "Hello, " + t + "!" for t the name without its surrounding whitespace;
\* safe_greet("  Bob  ") = Ok("Hello, Bob!"), safe_greet("") and
\* safe_greet("   ") fail.
C2_SafeGreetGatesOnValidation ==
    op = "safe_greet" =>
        LET v == validate_name(name) IN
        /\ v.tag = "Err" => result = v
        /\ v.tag = "Ok" =>
              /\ result = Ok(greet(trim(name)))
              /\ Len(result.val) >= 8
              /\ SubSeq(result.val, 1, 7) = <<72, 101, 108, 108, 111, 44, 32>>
              /\ result.val[Len(result.val)] = 33
              /\ IsTrimOf(SubSeq(result.val, 8, Len(result.val) - 1), name)
        /\ name = <<32, 32, 66, 111, 98, 32, 32>> =>
              result = Ok(<<72, 101, 108, 108, 111, 44, 32, 66, 111, 98, 33>>)
        /\ name \in {<<>>, <<32, 32, 32>>} => result.tag = "Err"

\* C2 witness: safe_greet("  Bob  ") returned Ok("Hello, Bob!").
C2_Witness ==
    /\ op = "safe_greet"
    /\ name = <<32, 32, 66, 111, 98, 32, 32>>
    /\ result = Ok(<<72, 101, 108, 108, 111, 44, 32, 66, 111, 98, 33>>)

\* C3: safe_greet_multilingual(n, c) fails with the error of validate_name(n)
\* when the name is invalid, whatever the code c, and otherwise succeeds with
\* exactly greet_multilingual(trim(n), c); the code alone never makes it fail.
C3_SafeGreetMultilingualGatesOnValidation ==
    op = "safe_greet_multilingual" =>
        LET v == validate_name(name) IN
        /\ v.tag = "Err" => result = v
        /\ v.tag = "Ok" =>
              /\ result = Ok(greet_multilingual(trim(name), arg))
              /\ result.val[Len(result.val)] = 33
              /\ \E w \in {greeting_word(l) : l \in Language} :
                    /\ Len(result.val) >= Len(w) + 3
                    /\ SubSeq(result.val, 1, Len(w) + 2) = w \o <<44, 32>>
                    /\ IsTrimOf(SubSeq(result.val, Len(w) + 3,
                                       Len(result.val) - 1), name)
        /\ name = <<>> => result = Err(EmptyName)

\* C3 witness: safe_greet_multilingual("  Bob  ", "unknown_lang") returned
\* Ok("Hello, Bob!"): an unrecognized code and a name that is trimmed.
C3_Witness ==
    /\ op = "safe_greet_multilingual"
    /\ name = <<32, 32, 66, 111, 98, 32, 32>>
    /\ arg = <<117, 110, 107, 110, 111, 119, 110, 95, 108, 97, 110, 103>>
    /\ result = Ok(<<72, 101, 108, 108, 111, 44, 32, 66, 111, 98, 33>>)

\* c is the lower-case ASCII word w written in any mix of upper and lower case.
EqualsIgnoringCase(c, w) ==
    /\ Len(c) = Len(w)
    /\ \A i \in 1..Len(w) : c[i] = w[i] \/ c[i] = w[i] - 32

\* The greeting word the documentation gives for a language code.
DocumentedWord(c) ==
    IF \/ EqualsIgnoringCase(c, <<122, 104>>)
       \/ EqualsIgnoringCase(c, <<99, 104, 105, 110, 101, 115, 101>>)
      THEN <<20320, 22909>>
    ELSE IF \/ EqualsIgnoringCase(c, <<101, 115>>)
            \/ EqualsIgnoringCase(c, <<115, 112, 97, 110, 105, 115, 104>>)
      THEN <<72, 111, 108, 97>>
    ELSE IF \/ EqualsIgnoringCase(c, <<102, 114>>)
            \/ EqualsIgnoringCase(c, <<102, 114, 101, 110, 99, 104>>)
      THEN <<66, 111, 110, 106, 111, 117, 114>>
    ELSE IF \/ EqualsIgnoringCase(c, <<100, 101>>)
            \/ EqualsIgnoringCase(c, <<103, 101, 114, 109, 97, 110>>)
      THEN <<72, 97, 108, 108, 111>>
    ELSE <<72, 101, 108, 108, 111>>

\* C4: greet_multilingual(n, c) = word + ", " + n + "!" where word is chosen
\* by matching c case-insensitively against zh/chinese, es/spanish, fr/french,
\* de/german and en/english; every other code, the empty one included, yields
\* "Hello".
C4_GreetMultilingualWord ==
    op = "greet_multilingual" =>
        result = DocumentedWord(arg) \o <<44, 32>> \o name \o <<33>>

\* C4 witness: greet_multilingual(U+4E16 U+754C, "ZH") returned
\* U+4F60 U+597D ", " U+4E16 U+754C "!".
C4_Witness ==
    /\ op = "greet_multilingual"
    /\ name = <<19990, 30028>>
    /\ arg = <<90, 72>>
    /\ result = <<20320, 22909, 44, 32, 19990, 30028, 33>>

\* C5: greet(n) never fails and returns exactly "Hello, " + n + "!" with n
\* verbatim (not trimmed, not validated); greet("") = "Hello, !".
C5_GreetInterpolatesVerbatim ==
    op = "greet" =>
        /\ Len(result) = Len(name) + 8
        /\ SubSeq(result, 1, 7) = <<72, 101, 108, 108, 111, 44, 32>>
        /\ SubSeq(result, 8, Len(result) - 1) = name
        /\ result[Len(result)] = 33
        /\ name = <<>> => result = <<72, 101, 108, 108, 111, 44, 32, 33>>

\* C5 witness: greet("  Bob  ") returned "Hello,   Bob  !".
C5_Witness ==
    /\ op = "greet"
    /\ name = <<32, 32, 66, 111, 98, 32, 32>>
    /\ result = <<72, 101, 108, 108, 111, 44, 32, 32, 32, 66, 111, 98, 32, 32, 33>>

\* C6: greet_formal(n, t) never fails and returns exactly
\* "Good day, " + t + " " + n + "!": the title before the name, both verbatim.
C6_GreetFormalTitleThenName ==
    op = "greet_formal" =>
        /\ Len(result) = 10 + Len(arg) + 1 + Len(name) + 1
        /\ SubSeq(result, 1, 10) = <<71, 111, 111, 100, 32, 100, 97, 121, 44, 32>>
        /\ SubSeq(result, 11, 10 + Len(arg)) = arg
        /\ result[11 + Len(arg)] = 32
        /\ SubSeq(result, 12 + Len(arg), Len(result) - 1) = name
        /\ result[Len(result)] = 33

\* C6 witness: greet_formal("Smith", "Dr.") returned "Good day, Dr. Smith!".
C6_Witness ==
    /\ op = "greet_formal"
    /\ name = <<83, 109, 105, 116, 104>>
    /\ arg = <<68, 114, 46>>
    /\ result = <<71, 111, 111, 100, 32, 100, 97, 121, 44, 32, 68, 114, 46, 32,
                  83, 109, 105, 116, 104, 33>>

\* C7: whatever the state a call of get_supported_languages starts in (so
\* whatever was called before), it returns the same sequence of exactly 5
\* pairwise distinct variants: English, Chinese, Spanish, French, German.
C7_SupportedLanguagesFixed ==
    [][op' = "get_supported_languages" =>
          /\ result' = <<"English", "Chinese", "Spanish", "French", "German">>
          /\ Len(result') = 5
          /\ \A i, j \in 1..Len(result') : i # j => result'[i] # result'[j]
          /\ \A i \in 1..Len(result') : result'[i] \in Language]_vars

\* C7 witness: get_supported_languages was called by a client holding the
\* name "World" and returned the five variants.
C7_Witness ==
    /\ op = "get_supported_languages"
    /\ name = <<87, 111, 114, 108, 100>>
    /\ Len(result) = 5
    /\ result[1] = "English"
    /\ result[5] = "German"

\* C8: validate_name, safe_greet and safe_greet_multilingual never return
\* InvalidLanguage: the only errors they return are EmptyName and NameTooLong.
C8_InvalidLanguageNeverReturned ==
    (op \in {"validate_name", "safe_greet", "safe_greet_multilingual"}
        /\ result.tag = "Err")
      => /\ result.err.kind # "InvalidLanguage"
         /\ result.err.kind \in {"EmptyName", "NameTooLong"}

\* C8 witness: safe_greet_multilingual with the unrecognized code "ja" and a
\* name of more than 100 bytes returned NameTooLong.
C8_Witness ==
    /\ op = "safe_greet_multilingual"
    /\ arg = <<106, 97>>
    /\ result.tag = "Err"
    /\ result.err.kind = "NameTooLong"

----------------------------------------------------------------------------
(* Properties of the command-line front end, checked under CliSpec.        *)

\* A line "<greeting word>, ...!" or "Good day, ...!".
IsGreetingLine(l) ==
    /\ l # <<>>
    /\ l[Len(l)] = 33
    /\ \E w \in {greeting_word(lang) \o <<44, 32>> : lang \in Language}
                  \cup { <<71, 111, 111, 100, 32, 100, 97, 121, 44, 32>> } :
          Len(l) > Len(w) /\ SubSeq(l, 1, Len(w)) = w

\* The run asks for the help text or the language list.
IsOptionInvocation ==
    positional = 1 /\ A(1) \in {HelpFlag, ShortHelpFlag, LanguagesFlag}

\* The help text of the program shows the invocation `<program> <a> <b>`
\* with the comment `# <output>`.
HelpShowsExample(a, b, output) ==
    \E i \in 1..Len(print_help(A(0))), k \in 1..30 :
        print_help(A(0))[i] =
            <<32, 32, 32, 32>> \o A(0) \o <<32>> \o a \o <<32>> \o b
              \o Repeat(32, k) \o <<35, 32>> \o output

\* C9: run with exactly two positional arguments <title> <name>, the CLI
\* prints "Good day, <title> <name>!", the multilingual form being used
\* instead only when the first argument looks like a short language code; in
\* particular the invocation the help text shows as printing
\* "Good day, Dr. Smith!" prints it.
C9_TwoArgsTitleThenName ==
    (pc = "exited" /\ positional = 2) =>
        /\ \/ stdout = << greet_formal(A(2), A(1)) >>
           \/ /\ looks_like_language_code(A(1))
              /\ stdout = << greet_multilingual(A(2), A(1)) >>
        /\ HelpShowsExample(A(1), A(2), greet_formal(A(2), A(1)))
              => stdout = << greet_formal(A(2), A(1)) >>
        /\ (A(1) = <<68, 114, 46>> /\ A(2) = <<83, 109, 105, 116, 104>>)
              => stdout = << <<71, 111, 111, 100, 32, 100, 97, 121, 44, 32, 68,
                               114, 46, 32, 83, 109, 105, 116, 104, 33>> >>

\* C10 as stated: with more than three positional arguments the process
\* writes an error/help message and exits with a non-zero status; on every
\* well-formed invocation (one asking for a greeting) it writes exactly one
\* greeting line and exits with status zero.
C10_MalformedExitsNonZero ==
    pc = "exited" =>
        /\ positional > 3 => (stdout # <<>> /\ exit_status # 0)
        /\ (positional <= 3 /\ ~IsOptionInvocation) =>
              /\ Len(stdout) = 1
              /\ IsGreetingLine(stdout[1])
              /\ exit_status = 0

\* C10 as amended: the process exits with status zero on every invocation;
\* with more than three positional arguments it writes the help text and
\* nothing else; with at most three positional arguments, unless the single
\* argument is --help, -h or --languages, it writes exactly one greeting line.
C10_AlwaysExitsZero ==
    /\ pc = "main" => (exit_status = -1 /\ stdout = <<>>)
    /\ pc = "exited" =>
        /\ exit_status = 0
        /\ positional > 3 =>
              /\ stdout = print_help(A(0))
              /\ Len(stdout) = 25
              /\ \A i \in 1..Len(stdout) : ~IsGreetingLine(stdout[i])
        /\ (positional <= 3 /\ ~IsOptionInvocation) =>
              /\ Len(stdout) = 1
              /\ IsGreetingLine(stdout[1])

\* C10 witness: a run with four positional arguments has written the 25
\* lines of the help text and exited with status 0.
C10_Witness ==
    /\ pc = "exited"
    /\ positional = 4
    /\ Len(stdout) = 25
    /\ exit_status = 0

\* C11 as stated: run with no positional argument the CLI prints
\* greet("World"); run with exactly one positional argument a that is not a
\* help flag ("--help" or "-h") it prints greet(a) = "Hello, " + a + "!".
C11_OneArgIsGreeted ==
    pc = "exited" =>
        /\ positional = 0 =>
              stdout = << <<72, 101, 108, 108, 111, 44, 32,
                            87, 111, 114, 108, 100, 33>> >>
        /\ (positional = 1 /\ A(1) \notin {HelpFlag, ShortHelpFlag}) =>
              stdout = << <<72, 101, 108, 108, 111, 44, 32>> \o A(1) \o <<33>> >>

\* C11 as amended: as stated, for every single argument that is neither a
\* help flag nor "--languages"; run with the single argument "--languages"
\* the CLI prints no greeting but the heading "Supported Languages:" and one
\* line "  <code> - <name>" for each of the five languages.
C11_OneArgIsGreetedUnlessOption ==
    pc = "exited" =>
        /\ positional = 0 =>
              stdout = << <<72, 101, 108, 108, 111, 44, 32,
                            87, 111, 114, 108, 100, 33>> >>
        /\ (positional = 1
              /\ A(1) \notin {HelpFlag, ShortHelpFlag, LanguagesFlag}) =>
              stdout = << <<72, 101, 108, 108, 111, 44, 32>> \o A(1) \o <<33>> >>
        /\ (positional = 1 /\ A(1) = LanguagesFlag) =>
              /\ Len(stdout) = 6
              \* "Supported Languages:"
              /\ stdout[1] = <<83, 117, 112, 112, 111, 114, 116, 101, 100, 32,
                               76, 97, 110, 103, 117, 97, 103, 101, 115, 58>>
              \* "  en - English"
              /\ stdout[2] = <<32, 32, 101, 110, 32, 45, 32,
                               69, 110, 103, 108, 105, 115, 104>>
              \* "  de - German"
              /\ stdout[6] = <<32, 32, 100, 101, 32, 45, 32,
                               71, 101, 114, 109, 97, 110>>
              /\ \A i \in 1..Len(stdout) : ~IsGreetingLine(stdout[i])

\* C11 witness: run with the single argument "Smith", the CLI has printed
\* "Hello, Smith!".
C11_Witness ==
    /\ pc = "exited"
    /\ positional = 1
    /\ A(1) = <<83, 109, 105, 116, 104>>
    /\ stdout = << <<72, 101, 108, 108, 111, 44, 32,
                     83, 109, 105, 116, 104, 33>> >>

====
